---- MODULE Spec2Model ----
(***************************************************************************)
(* State-machine model of ChatPDFProcessor (src/main.py): the session      *)
(* state (vector_store, retriever) and the operations ingest_pdf,          *)
(* query_document, query_tavily and clear_data.  The external              *)
(* collaborators (PDF loader, embedding service, vector index, language    *)
(* model, HTTP endpoint) are the environment: their answers are chosen     *)
(* with \E from small sets.                                                *)
(***************************************************************************)
EXTENDS Integers, Sequences, FiniteSets, TLC

VARIABLES
    vector_store,   \* self.vector_store: None or a Chroma handle
    retriever,      \* self.retriever: None or a retriever bound to a handle
    op,             \* the last call: its name and arguments
    pre,            \* self.vector_store / self.retriever when that call began
    outcome,        \* how the last call ended: a return value or an exception
    retrieval,      \* the search self.retriever.invoke ran in the last call
    tavily_calls,   \* the requests.post calls of the last call, in order
    llm_calls       \* the chain.invoke calls of the last call, in order

vars == <<vector_store, retriever, op, pre, outcome, retrieval, tavily_calls, llm_calls>>

----------------------------------------------------------------------------
(* Bounds of the model *)

\* k ranges over 1..MaxK and the default.
MaxK == 2
\* Distinct live Chroma handles: the session references at most two at a time.
MaxHandles == 3

(* Program constants *)

DefaultK == 5
\* Scores and thresholds are in hundredths: 0.2 is 20.
DefaultScoreThreshold == 20
HTTP_OK == 200

NoAnswerMessage == "No answer found in Tavily."
TavilyErrorMessage == "Tavily API error. Please try again later."
ContextSeparator == <<"\n", "\n">>

----------------------------------------------------------------------------
(* Python values *)

None == [kind |-> "None"]
Return(v) == [kind |-> "return", value |-> v]
Raise(e) == [kind |-> "raise", value |-> e]
\* A method without a return statement.
ReturnsNothing == Return("None")
\* raise ValueError("No document ingested. Please ingest a document first.")
NoDocumentError == Raise("ValueError: No document ingested. Please ingest a document first.")

----------------------------------------------------------------------------
(* Inputs *)

Paths == {"A.pdf", "B.pdf", "missing.pdf"}
Questions == {"q1", "q2"}
Ks == (1..MaxK) \cup {DefaultK}
Thresholds == {DefaultScoreThreshold, 60}

\* What PyPDFLoader, the splitter and the metadata filter make of a file:
\* its chunks, or no result when the file cannot be read or parsed.
Readable(path) == path \in {"A.pdf", "B.pdf"}

Chunks(path) ==
    CASE path = "A.pdf" ->
           << [id |-> "a1", page_content |-> <<"a", "b">>],
              [id |-> "a2", page_content |-> <<"c", "\n", "\n", "d">>],
              [id |-> "a3", page_content |-> <<"e">>] >>
      [] path = "B.pdf" ->
           << [id |-> "b1", page_content |-> <<"x", "y">>],
              [id |-> "b2", page_content |-> <<"z">>] >>
      [] OTHER -> << >>

\* The relevance score of a chunk for a question, as the embedding yields it.
Score(question, chunk) ==
    IF question = "q1"
    THEN CASE chunk.id = "a1" -> 50 [] chunk.id = "a2" -> 80 [] chunk.id = "a3" -> 10
           [] chunk.id = "b1" -> 30 [] chunk.id = "b2" -> 15
    ELSE CASE chunk.id = "a1" -> 5 [] chunk.id = "a2" -> 7 [] chunk.id = "a3" -> 6
           [] chunk.id = "b1" -> 90 [] chunk.id = "b2" -> 40

----------------------------------------------------------------------------
(* The vector index and the retriever *)

\* A handle not referenced by the session: the object Chroma.from_documents
\* creates is distinct from every handle still held.
FreshId ==
    CHOOSE i \in 1..MaxHandles :
        /\ (vector_store # None => vector_store.id # i)
        /\ (retriever # None => retriever.vectorstore.id # i)
        /\ \A j \in 1..(i - 1) :
              \/ (vector_store # None /\ vector_store.id = j)
              \/ (retriever # None /\ retriever.vectorstore.id = j)

\* Chroma.from_documents(documents=chunks, ...): a new handle over the chunks.
FromDocuments(path) == [kind |-> "Chroma", id |-> FreshId, path |-> path]

\* vector_store.as_retriever(search_type='similarity_score_threshold',
\*                           search_kwargs={"k": k, "score_threshold": t})
AsRetriever(store, k, score_threshold) ==
    [vectorstore |-> store, k |-> k, score_threshold |-> score_threshold]

\* The chunks in descending order of their score for the question.
RECURSIVE Ranked(_, _)
Ranked(question, chunks) ==
    IF chunks = << >> THEN << >>
    ELSE LET n == Len(chunks)
             best == CHOOSE i \in 1..n :
                        \A j \in 1..n :
                            \/ Score(question, chunks[i]) > Score(question, chunks[j])
                            \/ /\ Score(question, chunks[i]) = Score(question, chunks[j])
                               /\ i <= j
             rest == [j \in 1..(n - 1) |-> IF j < best THEN chunks[j] ELSE chunks[j + 1]]
         IN  <<chunks[best]>> \o Ranked(question, rest)

Take(s, n) == SubSeq(s, 1, IF n < Len(s) THEN n ELSE Len(s))

\* retriever.invoke(query) with search_type 'similarity_score_threshold': the
\* k nearest chunks of the retriever's store, then those whose score reaches
\* the retriever's threshold, best first.
Invoke(r, question) ==
    LET nearest == Take(Ranked(question, Chunks(r.vectorstore.path)), r.k)
        Relevant(chunk) == Score(question, chunk) >= r.score_threshold
    IN  SelectSeq(nearest, Relevant)

\* Join with the texts taken last first.
RECURSIVE Join_LastFirst(_, _)
Join_LastFirst(sep, texts) ==
    IF texts = << >> THEN << >>
    ELSE IF Len(texts) = 1 THEN texts[1]
    ELSE Join_LastFirst(sep, Tail(texts)) \o sep \o texts[1]

\* "\n\n".join(doc.page_content for doc in retrieved_docs)
RECURSIVE Join(_, _)
Join(sep, texts) ==
    IF texts = << >> THEN << >>
    ELSE IF Len(texts) = 1 THEN texts[1]
    ELSE texts[1] \o sep \o Join(sep, Tail(texts))

PageContents(docs) == [i \in 1..Len(docs) |-> docs[i].page_content]

FormattedInput(docs, question) ==
    [context |-> Join(ContextSeparator, PageContents(docs)), question |-> question]

----------------------------------------------------------------------------
(* The environment's answers *)

\* Bodies of an HTTP response: a JSON object (its fields), a JSON array, or
\* text that is not JSON.
Bodies ==
    { [kind |-> "object", fields |-> [answer |-> "web answer 1"]],
      [kind |-> "object", fields |-> [answer |-> "web answer 2", query |-> "echo"]],
      [kind |-> "object", fields |-> [detail |-> "no results"]],
      [kind |-> "array"],
      [kind |-> "text"] }

StatusCodes == {HTTP_OK, 404, 500}

\* requests.post: a response, or an exception when the request cannot be made.
HttpOutcomes ==
    [kind : {"response"}, status_code : StatusCodes, body : Bodies]
        \cup {[kind |-> "ConnectionError"]}

\* The language model behind the chain: a message, or a service failure.
LLMOutcomes ==
    {[kind |-> "message", content |-> c] : c \in {"generated 1", "generated 2"}}
        \cup {[kind |-> "ServiceError"]}

----------------------------------------------------------------------------
(* query_tavily *)

\* dict.get that ignores the stored value.
DictGet_AlwaysDefault(fields, key, default) == default

\* dict.get(key, default)
DictGet(fields, key, default) ==
    IF key \in DOMAIN fields THEN fields[key] ELSE default

\* response.json().get("answer", "No answer found in Tavily.")
JsonAnswer(body) ==
    CASE body.kind = "text" -> Raise("JSONDecodeError")
      [] body.kind = "array" -> Raise("AttributeError")
      [] body.kind = "object" -> Return(DictGet(body.fields, "answer", NoAnswerMessage))

\* query_tavily with response.raise_for_status() before the status test.
TavilyResult_RaiseForStatus(http) ==
    IF http.kind # "response" THEN Raise(http.kind)
    ELSE IF http.status_code = HTTP_OK
         THEN JsonAnswer(http.body)
         ELSE Raise("HTTPError")

\* Lines 129-135: what query_tavily makes of the outcome of requests.post.
TavilyResult(http) ==
    IF http.kind # "response" THEN Raise(http.kind)
    ELSE IF http.status_code = HTTP_OK THEN JsonAnswer(http.body)
    ELSE Return(TavilyErrorMessage)

\* The request query_tavily posts: json={"query": query}.
TavilyCall(query, http) == [json |-> [query |-> query], response |-> http]

\* Lines 128-135: one request, and the method ends as TavilyResult says.
QueryTavilyBody(query) ==
    \E http \in HttpOutcomes :
        /\ tavily_calls' = <<TavilyCall(query, http)>>
        /\ outcome' = TavilyResult(http)

\* query_tavily called by the user of the class.
QueryTavily ==
    \E query \in Questions :
        /\ op' = [name |-> "query_tavily", query |-> query]
        /\ pre' = [vector_store |-> vector_store, retriever |-> retriever]
        /\ QueryTavilyBody(query)
        /\ retrieval' = None
        /\ llm_calls' = << >>
        /\ UNCHANGED <<vector_store, retriever>>

----------------------------------------------------------------------------
(* ingest_pdf *)

\* ingest_pdf that assigns a handle before the load is known to succeed.
IngestLoadFailure_PartialIndex(path) ==
    /\ outcome' = Raise("LoadError")
    /\ vector_store' = [kind |-> "Chroma", id |-> FreshId, path |-> path]
    /\ UNCHANGED retriever

\* Line 65 raises: the file cannot be read or parsed.  Nothing is assigned.
IngestLoadFailure(path) ==
    /\ outcome' = Raise("LoadError")
    /\ UNCHANGED <<vector_store, retriever>>

\* Lines 66-74: the chunks are embedded and stored, and self.vector_store is
\* assigned the new handle; an embedding failure raises before the assignment.
IngestStore(path) ==
    \E embedded \in BOOLEAN :
        IF embedded
        THEN /\ vector_store' = FromDocuments(path)
             /\ outcome' = ReturnsNothing
             /\ UNCHANGED retriever
        ELSE /\ outcome' = Raise("ServiceError")
             /\ UNCHANGED <<vector_store, retriever>>

IngestPdf ==
    \E path \in Paths :
        /\ op' = [name |-> "ingest_pdf", pdf_file_path |-> path]
        /\ pre' = [vector_store |-> vector_store, retriever |-> retriever]
        /\ IF Readable(path) THEN IngestStore(path) ELSE IngestLoadFailure(path)
        /\ retrieval' = None
        /\ tavily_calls' = << >>
        /\ llm_calls' = << >>

----------------------------------------------------------------------------
(* query_document *)

\* query_document without the guard of line 88: a missing index is handled like
\* an empty retrieval.
QueryNoIndex_Fallback(query, k, score_threshold) ==
    /\ \E http \in HttpOutcomes :
          /\ tavily_calls' = <<TavilyCall(query, http)>>
          /\ outcome' = TavilyResult(http)
    /\ retrieval' = None
    /\ llm_calls' = << >>
    /\ UNCHANGED <<vector_store, retriever>>

\* Lines 88-89: no vector store, the call raises at once.
QueryNoIndex(query, k, score_threshold) ==
    /\ outcome' = NoDocumentError
    /\ retrieval' = None
    /\ tavily_calls' = << >>
    /\ llm_calls' = << >>
    /\ UNCHANGED <<vector_store, retriever>>

\* Lines 91-95: the retriever is built only when none is held.
CurrentRetriever(k, score_threshold) ==
    IF retriever = None
    THEN AsRetriever(vector_store, k, score_threshold)
    ELSE retriever

\* The empty branch handing the question to the chain with an empty context.
FallbackBranch_Generates(query) ==
    \E gen \in LLMOutcomes :
        /\ llm_calls' = <<[input |-> [context |-> << >>, question |-> query],
                           response |-> gen]>>
        /\ outcome' = IF gen.kind = "message" THEN Return(gen.content) ELSE Raise(gen.kind)
        /\ tavily_calls' = << >>

\* Lines 99-102: nothing retrieved, the answer is query_tavily's.
FallbackBranch(query) ==
    /\ QueryTavilyBody(query)
    /\ llm_calls' = << >>

\* StrOutputParser on the model's message.
ChainResult(gen) ==
    IF gen.kind = "message" THEN Return(gen.content) ELSE Raise(gen.kind)

\* Lines 104-116: the chain is invoked once on the formatted input.
GenerateBranch(docs, query) ==
    \E gen \in LLMOutcomes :
        /\ llm_calls' = <<[input |-> FormattedInput(docs, query), response |-> gen]>>
        /\ outcome' = ChainResult(gen)
        /\ tavily_calls' = << >>

\* Lines 91-116.
QueryWithIndex(query, k, score_threshold) ==
    LET r == CurrentRetriever(k, score_threshold)
        docs == Invoke(r, query)
    IN  /\ retriever' = r
        /\ UNCHANGED vector_store
        /\ \E embedded \in BOOLEAN :
              IF embedded
              THEN /\ retrieval' = [retriever |-> r, query |-> query,
                                    ok |-> TRUE, docs |-> docs]
                   /\ IF docs = << >>
                      THEN FallbackBranch(query)
                      ELSE GenerateBranch(docs, query)
              ELSE /\ retrieval' = [retriever |-> r, query |-> query,
                                    ok |-> FALSE, docs |-> << >>]
                   /\ outcome' = Raise("ServiceError")
                   /\ tavily_calls' = << >>
                   /\ llm_calls' = << >>

QueryDocument ==
    \E query \in Questions, k \in Ks, score_threshold \in Thresholds :
        /\ op' = [name |-> "query_document", query |-> query, k |-> k,
                  score_threshold |-> score_threshold]
        /\ pre' = [vector_store |-> vector_store, retriever |-> retriever]
        /\ IF vector_store = None
           THEN QueryNoIndex(query, k, score_threshold)
           ELSE QueryWithIndex(query, k, score_threshold)

----------------------------------------------------------------------------
(* clear_data *)

\* clear_data that forgets the retriever only.
ClearData_KeepsStore ==
    /\ op' = [name |-> "clear_data"]
    /\ pre' = [vector_store |-> vector_store, retriever |-> retriever]
    /\ retriever' = None
    /\ outcome' = ReturnsNothing
    /\ retrieval' = None
    /\ tavily_calls' = << >>
    /\ llm_calls' = << >>
    /\ UNCHANGED vector_store

ClearData ==
    /\ op' = [name |-> "clear_data"]
    /\ pre' = [vector_store |-> vector_store, retriever |-> retriever]
    /\ vector_store' = None
    /\ retriever' = None
    /\ outcome' = ReturnsNothing
    /\ retrieval' = None
    /\ tavily_calls' = << >>
    /\ llm_calls' = << >>

----------------------------------------------------------------------------
(* The session *)

\* __init__: no vector store, no retriever.
Init ==
    /\ vector_store = None
    /\ retriever = None
    /\ op = [name |-> "__init__"]
    /\ pre = [vector_store |-> None, retriever |-> None]
    /\ outcome = ReturnsNothing
    /\ retrieval = None
    /\ tavily_calls = << >>
    /\ llm_calls = << >>

Next == IngestPdf \/ QueryDocument \/ QueryTavily \/ ClearData

Spec == Init /\ [][Next]_vars

----------------------------------------------------------------------------
(* Properties *)

IsQuery == op.name = "query_document"
\* The last call ran a search that returned.
Retrieved == IsQuery /\ retrieval # None /\ retrieval.ok

\* C1: a query_document call made while no vector store exists raises the
\* 'no document ingested' ValueError, runs no search, calls neither Tavily
\* nor the language model, and leaves vector_store and retriever as they were.
C1_QueryWithoutIndexRaises ==
    (IsQuery /\ pre.vector_store = None) =>
        /\ outcome = NoDocumentError
        /\ retrieval = None
        /\ tavily_calls = << >>
        /\ llm_calls = << >>
        /\ vector_store = pre.vector_store
        /\ retriever = pre.retriever

C1_Witness ==
    /\ IsQuery
    /\ pre.vector_store = None
    /\ outcome = NoDocumentError

\* C2: clear_data leaves vector_store and retriever both None; while the
\* vector store is None every query_document raises the 'no document
\* ingested' error and only a successful ingest_pdf makes it present again;
\* a successful ingest_pdf leaves it present, and while it is present no
\* query_document raises that error.
C2_ClearThenQueryRaisesUntilIngest ==
    /\ [](op.name = "clear_data" => (vector_store = None /\ retriever = None))
    /\ [][(vector_store = None /\ op'.name = "query_document")
             => outcome' = NoDocumentError]_vars
    /\ [][(vector_store = None /\ vector_store' # None)
             => (op'.name = "ingest_pdf" /\ outcome' = ReturnsNothing)]_vars
    /\ []((op.name = "ingest_pdf" /\ outcome = ReturnsNothing) => vector_store # None)
    /\ [][(vector_store # None /\ op'.name = "query_document")
             => outcome' # NoDocumentError]_vars

C2_Witness ==
    /\ op.name = "clear_data"
    /\ pre.vector_store # None
    /\ pre.retriever # None
    /\ vector_store = None
    /\ retriever = None

\* C3: a query_document call that searches, searches the index built from
\* the document ingested last: the store of the retriever it uses holds the
\* chunks of the file of the current vector store.
C3_QuerySearchesCurrentIndex ==
    Retrieved => retrieval.retriever.vectorstore.path = vector_store.path

\* C4: the search of a query_document call uses the k and the score_threshold
\* passed to that call: it returns the chunks among the k nearest whose score
\* reaches that threshold.
C4_SearchUsesCallArguments ==
    Retrieved =>
        /\ retrieval.retriever.k = op.k
        /\ retrieval.retriever.score_threshold = op.score_threshold
        /\ retrieval.docs =
              Invoke(AsRetriever(retrieval.retriever.vectorstore, op.k,
                                 op.score_threshold), op.query)

\* C5: when the search of a query_document call returns no chunk, the call
\* makes exactly one Tavily request, carrying the question unchanged, ends as
\* that request's handling ends (its return value is the call's return
\* value), and does not invoke the language model.
C5_EmptyRetrievalFallsBack ==
    (Retrieved /\ retrieval.docs = << >>) =>
        /\ Len(tavily_calls) = 1
        /\ tavily_calls[1].json = [query |-> op.query]
        /\ outcome = TavilyResult(tavily_calls[1].response)
        /\ llm_calls = << >>

C5_Witness ==
    /\ Retrieved
    /\ retrieval.docs = << >>
    /\ Len(tavily_calls) = 1
    /\ outcome.kind = "return"

\* Where the i-th text starts in the texts joined with a two-character
\* separator (0-based offset).
RECURSIVE Offset(_, _)
Offset(docs, i) ==
    IF i = 1 THEN 0 ELSE Offset(docs, i - 1) + Len(docs[i - 1].page_content) + 2

\* context is the page contents of docs, in order, with "\n\n" between them.
IsBlankLineJoin(context, docs) ==
    LET n == Len(docs) IN
    /\ Len(context) = Offset(docs, n) + Len(docs[n].page_content)
    /\ \A i \in 1..n :
          SubSeq(context, Offset(docs, i) + 1,
                 Offset(docs, i) + Len(docs[i].page_content)) = docs[i].page_content
    /\ \A i \in 2..n :
          /\ context[Offset(docs, i) - 1] = "\n"
          /\ context[Offset(docs, i)] = "\n"

\* C6: when the search of a query_document call returns chunks, the call
\* invokes the chain exactly once, with the question unchanged and with the
\* chunks' texts in retrieval order separated by a blank line as context,
\* returns the text the model generated, and makes no Tavily request.
C6_RetrievedChunksAreGenerated ==
    (Retrieved /\ retrieval.docs # << >>) =>
        /\ Len(llm_calls) = 1
        /\ llm_calls[1].input.question = op.query
        /\ IsBlankLineJoin(llm_calls[1].input.context, retrieval.docs)
        /\ llm_calls[1].response.kind = "message" =>
              outcome = Return(llm_calls[1].response.content)
        /\ llm_calls[1].response.kind # "message" => outcome.kind = "raise"
        /\ tavily_calls = << >>

C6_Witness ==
    /\ Retrieved
    /\ Len(retrieval.docs) >= 2
    /\ Len(llm_calls) = 1
    /\ outcome = Return("generated 1")

\* C7: a Tavily response whose status is not 200 makes the call that received
\* it (query_tavily, or a query_document that fell back) return the fixed
\* 'try again later' string; it does not raise.
C7_Non200ReturnsErrorString ==
    \A i \in 1..Len(tavily_calls) :
        LET http == tavily_calls[i].response IN
        (http.kind = "response" /\ http.status_code # HTTP_OK) =>
            outcome = Return(TavilyErrorMessage)

C7_Witness ==
    /\ Retrieved
    /\ Len(tavily_calls) = 1
    /\ tavily_calls[1].response.kind = "response"
    /\ tavily_calls[1].response.status_code = 500
    /\ outcome = Return(TavilyErrorMessage)

\* C8: a call that made a Tavily request returns a string whatever became of
\* the request (a malformed body, a request that failed): it never raises.
C8_FallbackNeverRaises ==
    tavily_calls # << >> => outcome.kind = "return"

\* C9: an ingest_pdf call on a file that cannot be read or parsed raises the
\* load error and leaves vector_store and retriever as they were; when there
\* was no vector store, the next query_document raises the 'no document
\* ingested' error.
C9_FailedIngestChangesNothing ==
    /\ []((op.name = "ingest_pdf" /\ ~Readable(op.pdf_file_path)) =>
             /\ outcome = Raise("LoadError")
             /\ vector_store = pre.vector_store
             /\ retriever = pre.retriever)
    /\ [][(/\ op.name = "ingest_pdf"
           /\ outcome = Raise("LoadError")
           /\ pre.vector_store = None
           /\ op'.name = "query_document") => outcome' = NoDocumentError]_vars

C9_Witness ==
    /\ op.name = "ingest_pdf"
    /\ outcome = Raise("LoadError")
    /\ pre.vector_store # None
    /\ pre.retriever # None
    /\ vector_store = pre.vector_store
    /\ retriever = pre.retriever

\* C10: a Tavily response with status 200 whose body is a JSON object makes
\* the call return the object's answer field when it has one and the fixed
\* 'no answer found' string when it has none, never the 'try again later'
\* string.
C10_OkResponseReturnsAnswer ==
    \A i \in 1..Len(tavily_calls) :
        LET http == tavily_calls[i].response IN
        (http.kind = "response" /\ http.status_code = HTTP_OK) =>
            /\ outcome # Return(TavilyErrorMessage)
            /\ http.body.kind = "object" =>
                  IF "answer" \in DOMAIN http.body.fields
                  THEN outcome = Return(http.body.fields.answer)
                  ELSE outcome = Return(NoAnswerMessage)

C10_Witness ==
    /\ op.name = "query_tavily"
    /\ Len(tavily_calls) = 1
    /\ tavily_calls[1].response.kind = "response"
    /\ tavily_calls[1].response.status_code = HTTP_OK
    /\ tavily_calls[1].response.body.kind = "object"
    /\ "answer" \in DOMAIN tavily_calls[1].response.body.fields
    /\ outcome = Return(tavily_calls[1].response.body.fields.answer)

====
